---- MODULE Spec2Model ----
\* The schema registry of banyand/metadata/schema (etcd.go, measure.go):
\* entities are stored as marshalled bytes under flat keys of an etcd
\* key-value store, updated with optimistic concurrency, and every committed
\* mutation is fanned out synchronously to the registered event handlers.
\*
\* Strings of the program (keys, group and entity names) are sequences of
\* byte values, so that key concatenation, prefix ranges and
\* incrementLastByte are computed as the code computes them.
EXTENDS Integers, Sequences, FiniteSets, TLC

\* ------------------------------------------------------------------ bounds

\* Calls (Update / Delete / DeleteGroup / Get) started in one behaviour.
MaxCalls == 2

\* Handlers registered in one behaviour.
MaxHandlers == 2

\* ------------------------------------------------------- program constants

\* "/groups/"
GroupsKeyPrefix ==
    << 47, 103, 114, 111, 117, 112, 115, 47 >>

\* "/__meta_group__"
GroupMetadataKey ==
    << 47, 95, 95, 109, 101, 116, 97, 95, 103, 114, 111, 117, 112, 95, 95 >>

\* "/streams/"
StreamKeyPrefix ==
    << 47, 115, 116, 114, 101, 97, 109, 115, 47 >>

\* "/index-rule-bindings/"
IndexRuleBindingKeyPrefix ==
    << 47, 105, 110, 100, 101, 120, 45, 114, 117, 108, 101, 45,
       98, 105, 110, 100, 105, 110, 103, 115, 47 >>

\* "/index-rules/"
IndexRuleKeyPrefix ==
    << 47, 105, 110, 100, 101, 120, 45, 114, 117, 108, 101, 115, 47 >>

\* "/measures/"
MeasureKeyPrefix ==
    << 47, 109, 101, 97, 115, 117, 114, 101, 115, 47 >>

\* The entity kinds are bit flags (Kind = 1 << iota) and KindMask is their
\* union; the declarations live beside the Metadata type of the package.
KindGroup == 1

KindStream == 2

KindMeasure == 4

KindIndexRuleBinding == 8

KindIndexRule == 16

KindMask == 31

EntityKinds == {KindStream, KindMeasure, KindIndexRuleBinding, KindIndexRule}

Kinds == {KindGroup} \cup EntityKinds

\* Width of a Kind in bits, for the bitwise and of InterestOf.
KindBits == 5

\* Error values of the package.
ErrNil == "nil"

ErrGroupAbsent == "group is absent"

ErrEntityNotFound == "entity is not found"

ErrUnexpectedNumberOfEntities == "unexpected number of entities"

ErrConcurrentModification == "concurrent modification of entities"

\* An error returned by the key-value substrate itself (or a cancelled context).
ErrSubstrate == "substrate error"

\* A proto.Unmarshal failure.
ErrDecode == "proto: cannot parse"

\* ErrUnsupportedTagForIndexField
ErrUnsupportedTagForIndexField ==
    "the tag type(for example, null) can not be as the index field value"

\* strDelimiter: "\n"
strDelimiter == << 10 >>

\* enum Catalog.
CATALOG_UNSPECIFIED == 0

CATALOG_STREAM == 1

CATALOG_MEASURE == 2

\* --------------------------------------------------------- byte strings

\* a < b in byte-lexicographic order (the order of etcd keys).
RECURSIVE LexLess(_, _)
LexLess(a, b) ==
    IF b = << >> THEN FALSE
    ELSE IF a = << >> THEN TRUE
    ELSE IF Head(a) # Head(b) THEN Head(a) < Head(b)
    ELSE LexLess(Tail(a), Tail(b))

LexLeq(a, b) == a = b \/ LexLess(a, b)

HasPrefix(s, pre) ==
    /\ Len(pre) <= Len(s)
    /\ SubSeq(s, 1, Len(pre)) = pre

HasSuffix(s, suf) ==
    /\ Len(suf) <= Len(s)
    /\ SubSeq(s, Len(s) - Len(suf) + 1, Len(s)) = suf

\* bb[len(bb)-1]++ on a byte: the increment wraps at 256.
incrementLastByte(key) ==
    [key EXCEPT ![Len(key)] = (key[Len(key)] + 1) % 256]

\* x & y on KindBits-bit values.
RECURSIVE BitAndN(_, _, _)
BitAndN(x, y, n) ==
    IF n = 0 THEN 0
    ELSE (IF x % 2 = 1 /\ y % 2 = 1 THEN 1 ELSE 0)
         + 2 * BitAndN(x \div 2, y \div 2, n - 1)

BitAnd(x, y) == BitAndN(x, y, KindBits)

\* ------------------------------------------------------------- key codec

formatKey(entityPrefix, group, name) ==
    GroupsKeyPrefix \o group \o entityPrefix \o name

formatGroupKey(group) ==
    GroupsKeyPrefix \o group \o GroupMetadataKey

formatStreamKey(group, name) == formatKey(StreamKeyPrefix, group, name)

formatMeasureKey(group, name) == formatKey(MeasureKeyPrefix, group, name)

formatIndexRuleBindingKey(group, name) ==
    formatKey(IndexRuleBindingKeyPrefix, group, name)

formatIndexRuleKey(group, name) == formatKey(IndexRuleKeyPrefix, group, name)

listPrefixesForEntity(group, entityPrefix) ==
    GroupsKeyPrefix \o group \o entityPrefix

\* Metadata.Key(): the key of an entity, by kind. A Group is keyed by its name.
Key(md) ==
    IF md.kind = KindGroup THEN formatGroupKey(md.name)
    ELSE IF md.kind = KindStream THEN formatStreamKey(md.group, md.name)
    ELSE IF md.kind = KindMeasure THEN formatMeasureKey(md.group, md.name)
    ELSE IF md.kind = KindIndexRuleBinding
        THEN formatIndexRuleBindingKey(md.group, md.name)
    ELSE formatIndexRuleKey(md.group, md.name)

\* ------------------------------------------------ entities and envelopes

\* A message of one of the five kinds: its metadata (group, name and the
\* read-only revision fields as the client left them) and `body`, standing for
\* all its other fields.
Message(kind, group, name, body, crev) ==
    [msg |-> kind, group |-> group, name |-> name, body |-> body,
     create_revision |-> crev, mod_revision |-> crev]

\* Group.GetCatalog(): the catalog is one of the fields `body` stands for; a
\* Group of body 1 is of the stream catalog, one of body 2 of the measure
\* catalog, any other has none specified.
GetCatalog(m) ==
    IF m.body \in {CATALOG_STREAM, CATALOG_MEASURE} THEN m.body
    ELSE CATALOG_UNSPECIFIED

\* No message / no entity.
Nil == [msg |-> 0]

\* The envelope the typed Update wrappers build: TypeMeta taken from the
\* message's own metadata, Spec the message. A Group carries no group field.
UpdateMetadata(m) ==
    [kind |-> m.msg,
     group |-> IF m.msg = KindGroup THEN << >> ELSE m.group,
     name |-> m.name,
     spec |-> m]

\* The envelope the typed Delete wrappers build: no Spec.
DeleteMetadata(kind, group, name) ==
    [kind |-> kind, group |-> group, name |-> name, spec |-> Nil]

\* proto.Marshal: the bytes carry the message's fields under its wire type.
Marshal(m) == [wire |-> m.msg, data |-> m]

\* proto.Unmarshal into a message of kind `kind`.
Unmarshal(bytes, kind) ==
    IF bytes.wire = kind
    THEN [ok |-> TRUE, msg |-> bytes.data]
    ELSE [ok |-> FALSE, msg |-> Nil]

\* Metadata.Equal: semantic equality of the new Spec and the stored message;
\* the read-only revision fields do not take part.
Equal(md, existing) ==
    /\ existing.msg = md.spec.msg
    /\ existing.group = md.spec.group
    /\ existing.name = md.spec.name
    /\ existing.body = md.spec.body

\* ------------------------------------------------------------ the model

VARIABLES
    kv,        \* the substrate: key -> [value, create, mod], stored keys only
    rev,       \* the substrate's revision
    handlers,  \* e.handlers: sequence of [interestKeys, id]
    events,    \* every callback invocation so far, in order
    pc,        \* per caller: where its call stands
    call,      \* per caller: the call it is in (or last made)
    local,     \* per caller: the call's local variables
    ret,       \* per caller: what its last call returned
    calls,     \* calls started so far
    focus,     \* the entity kind the callers of this behaviour work on
    written    \* the elements the stream has stored, in order

vars ==
    << kv, rev, handlers, events, pc, call, local, ret, calls, focus, written >>

Procs == {1, 2}

\* -------------------------------------------------------------- inputs

\* "g"
GroupNames == { << 103 >> }

\* "s"
EntityNames == { << 115 >> }

\* <<body, revisions>> of the messages callers pass: the value of the fields
\* other than the metadata, and what the client left in create_revision and
\* mod_revision, which are never those the store will give the key.
Variants == { << 1, 0 >>, << 2, 9 >> }

\* Interest masks handlers register with.
HandlerMasks == { KindGroup + KindStream }

\* The identities callers pass to Delete and Get, and update: the entity of
\* the kind in focus.
EntityIds == {focus} \X GroupNames \X EntityNames

\* The messages callers pass to Update.
UpdateInputs ==
    { Message(KindGroup, << >>, g, v[1], v[2]) :
        g \in GroupNames, v \in Variants }
    \cup
    { Message(k[1], k[2], k[3], v[1], v[2]) : k \in EntityIds, v \in Variants }

\* The groups callers pass to List: "g" and the empty group.
ListGroupNames == GroupNames \cup { << >> }

\* Messages whose group or name holds the separator "/": the entity "s" of
\* the kind in focus in a group named "g" followed by the kind's key prefix
\* less its last "/" ("g/streams" for a stream), and the entity of group "g"
\* named "x/__meta_group__".
SlashInputs ==
    LET g == << 103 >>
        s == << 115 >>
        x == << 120 >>
        prefix == IF focus = KindStream THEN StreamKeyPrefix ELSE MeasureKeyPrefix
    IN  { Message(focus, g \o SubSeq(prefix, 1, Len(prefix) - 1), s, 1, 0),
          Message(focus, g, x \o GroupMetadataKey, 1, 0) }

\* --------------------------------------------------------- the substrate

\* clientv3.ModRevision(key): 0 for a key that is not stored.
ModRevision(key) == IF key \in DOMAIN kv THEN kv[key].mod ELSE 0

\* The store `store` after OpPut(key, val) commits at revision r: a new key is
\* created at r, a stored key keeps its create revision.
KvPutIn(store, key, val, r) ==
    [k \in DOMAIN store \cup {key} |->
        IF k = key
        THEN [value |-> val,
              create |-> IF key \in DOMAIN store THEN store[key].create ELSE r,
              mod |-> r]
        ELSE store[k]]

KvPut(key, val, r) == KvPutIn(kv, key, val, r)

\* The stored keys of the half-open range [lo, hi).
KvRange(lo, hi) ==
    { k \in DOMAIN kv : LexLeq(lo, k) /\ LexLess(k, hi) }

\* The store after the keys of D are deleted.
KvDelete(D) == [k \in DOMAIN kv \ D |-> kv[k]]

\* ------------------------------------------------------- event dispatch

\* An InterestOf that takes every handler to be interested.
InterestOfAll(eh, kind) == TRUE

InterestOf(eh, kind) == BitAnd(BitAnd(KindMask, kind), eh.interestKeys) # 0

\* The append takes no lock: handlers are registered while the registry is
\* set up, before the first call.
RegisterHandler(mask) ==
    /\ Len(handlers) < MaxHandlers
    /\ calls = 0
    /\ \A p \in Procs : pc[p] = "idle"
    /\ handlers' = Append(handlers,
                          [interestKeys |-> mask, id |-> Len(handlers) + 1])
    /\ UNCHANGED << kv, rev, events, pc, call, local, ret, calls, focus, written >>

\* ------------------------------------------------------------- callers

\* The locals of a call; ctx is the state of the context the caller passed,
\* ranges the number of range reads a List has issued.
NoLocal ==
    [modRevision |-> 0, existingVal |-> Nil, g |-> Nil, note |-> Nil,
     hn |-> 0, i |-> 0, ctx |-> "active", ranges |-> 0,
     cid |-> 0, observed |-> 0, wrote |-> 0, attempts |-> 0]

NoCall == [op |-> "none", md |-> Nil]

NoRet ==
    [err |-> "none", deleted |-> FALSE, entity |-> Nil, entities |-> << >>,
     bytes |-> << >>]

\* What a call of Update, Delete, DeleteGroup or Get returns.
Result(err, deleted, entity) ==
    [err |-> err, deleted |-> deleted, entity |-> entity, entities |-> << >>,
     bytes |-> << >>]

\* What a call of List returns: the slice of entities, nil with an error.
ListResult(err, entities) ==
    [err |-> err, deleted |-> FALSE, entity |-> Nil, entities |-> entities,
     bytes |-> << >>]

\* A caller may start a call when it is in none. Callers are interchangeable:
\* a call is given to the first caller, and to the second, which makes one
\* call, only while the first is in a call.
CanCall(p) ==
    /\ pc[p] \in {"idle", "done"}
    /\ calls < MaxCalls
    /\ \A q \in Procs : q < p => pc[q] \notin {"idle", "done"}
    /\ p > 1 => pc[p] = "idle"

\* The call p starts: its envelope, fresh locals, and its number.
Begin(p, op, md) ==
    /\ CanCall(p)
    /\ calls' = calls + 1
    /\ call' = [call EXCEPT ![p] = [op |-> op, md |-> md]]

\* The locals of a call that starts: its number, and (kept for the record) the
\* modification revision its first request finds the key at, 0 when the key is
\* not stored or the request fails.
Blind == [NoLocal EXCEPT !.cid = calls + 1]

Fresh(key) == [Blind EXCEPT !.observed = ModRevision(key)]

\* The call of p returns.
Return(p, loc, r) ==
    /\ pc' = [pc EXCEPT ![p] = "done"]
    /\ local' = [local EXCEPT ![p] = loc]
    /\ ret' = [ret EXCEPT ![p] = r]

\* The call of p goes on at `at`.
Goto(p, loc, at) ==
    /\ pc' = [pc EXCEPT ![p] = at]
    /\ local' = [local EXCEPT ![p] = loc]
    /\ UNCHANGED ret

\* notifyUpdate / notifyDelete start ranging over e.handlers: the range
\* expression is evaluated once, so the loop covers the handlers registered by
\* now.
StartNotify(p, loc, type, md) ==
    Goto(p, [loc EXCEPT !.note = [type |-> type, md |-> md],
                        !.hn = Len(handlers), !.i = 1], "notify")

\* get() that assigns the modification revision to both read-only fields.
getModRevisionTwice(key, kind) ==
    IF key \notin DOMAIN kv THEN Result(ErrEntityNotFound, FALSE, Nil)
    ELSE LET m == Unmarshal(kv[key].value, kind) IN
         IF ~m.ok THEN Result(ErrDecode, FALSE, Nil)
         ELSE Result(ErrNil, FALSE,
                     [m.msg EXCEPT !.create_revision = kv[key].mod,
                                   !.mod_revision = kv[key].mod])

\* get() that leaves the read-only fields as they were stored.
getStoredRevisions(key, kind) ==
    IF key \notin DOMAIN kv THEN Result(ErrEntityNotFound, FALSE, Nil)
    ELSE LET m == Unmarshal(kv[key].value, kind) IN
         IF ~m.ok THEN Result(ErrDecode, FALSE, Nil)
         ELSE Result(ErrNil, FALSE, m.msg)

\* get(): the entity stored under key, decoded as a message of `kind`, with
\* the substrate's revisions assigned to its read-only fields.
get(key, kind) ==
    IF key \notin DOMAIN kv THEN Result(ErrEntityNotFound, FALSE, Nil)
    ELSE LET m == Unmarshal(kv[key].value, kind) IN
         IF ~m.ok THEN Result(ErrDecode, FALSE, Nil)
         ELSE Result(ErrNil, FALSE,
                     [m.msg EXCEPT !.create_revision = kv[key].create,
                                   !.mod_revision = kv[key].mod])

\* update() that does not compare the new value with the stored one.
UpdateReadNoEqual(p, m) ==
    LET md == UpdateMetadata(m)
        key == Key(md)
    IN  /\ Begin(p, "Update", md)
        /\ IF key \in DOMAIN kv
           THEN Goto(p, [Fresh(key) EXCEPT !.modRevision = kv[key].mod],
                     "update_txn")
           ELSE Goto(p, Fresh(key), "update_put")
        /\ UNCHANGED << kv, rev, handlers, events, focus, written >>

\* update(), up to its write: the read of the current value and the
\* comparison with it.
UpdateRead(p, m) ==
    LET md == UpdateMetadata(m)
        key == Key(md)
    IN  /\ Begin(p, "Update", md)
        /\ IF key \in DOMAIN kv
           THEN LET existingVal == Unmarshal(kv[key].value, md.kind) IN
                IF ~existingVal.ok
                THEN Return(p, Fresh(key), Result(ErrDecode, FALSE, Nil))
                ELSE IF Equal(md, existingVal.msg)
                THEN Return(p, [Fresh(key) EXCEPT !.existingVal = existingVal.msg],
                            Result(ErrNil, FALSE, Nil))
                ELSE Goto(p, [Fresh(key) EXCEPT !.existingVal = existingVal.msg,
                                                !.modRevision = kv[key].mod],
                          "update_txn")
           ELSE Goto(p, Fresh(key), "update_put")
        /\ UNCHANGED << kv, rev, handlers, events, focus, written >>

\* update(): the read fails in the substrate.
UpdateReadFails(p, m) ==
    /\ Begin(p, "Update", UpdateMetadata(m))
    /\ Return(p, Blind, Result(ErrSubstrate, FALSE, Nil))
    /\ UNCHANGED << kv, rev, handlers, events, focus, written >>

\* update() with a put that does not compare the modification revision.
UpdateTxnNoCompare(p) ==
    LET md == call[p].md
        key == Key(md)
        loc == [local[p] EXCEPT !.attempts = @ + 1]
    IN  /\ pc[p] = "update_txn"
        /\ kv' = KvPut(key, Marshal(md.spec), rev + 1)
        /\ rev' = rev + 1
        /\ StartNotify(p, [loc EXCEPT !.wrote = rev + 1], "update", md)
        /\ UNCHANGED << handlers, events, call, calls, focus, written >>

\* update() that notifies before it looks at the transaction's outcome.
UpdateTxnNotifiesAnyway(p) ==
    LET md == call[p].md
        key == Key(md)
        loc == [local[p] EXCEPT !.attempts = @ + 1]
    IN  /\ pc[p] = "update_txn"
        /\ IF ModRevision(key) = local[p].modRevision
           THEN /\ kv' = KvPut(key, Marshal(md.spec), rev + 1)
                /\ rev' = rev + 1
                /\ StartNotify(p, [loc EXCEPT !.wrote = rev + 1], "update", md)
           ELSE /\ StartNotify(p, loc, "update", md)
                /\ UNCHANGED << kv, rev >>
        /\ UNCHANGED << handlers, events, call, calls, focus, written >>

\* update(), replace branch: the transaction that puts the new value if the
\* key's modification revision still is the one read. The transaction is
\* issued with context.Background(), not with the caller's context.
UpdateTxn(p) ==
    LET md == call[p].md
        key == Key(md)
        loc == [local[p] EXCEPT !.attempts = @ + 1]
    IN  /\ pc[p] = "update_txn"
        /\ IF ModRevision(key) = local[p].modRevision
           THEN /\ kv' = KvPut(key, Marshal(md.spec), rev + 1)
                /\ rev' = rev + 1
                /\ StartNotify(p, [loc EXCEPT !.wrote = rev + 1], "update", md)
           ELSE /\ Return(p, loc, Result(ErrConcurrentModification, FALSE, Nil))
                /\ UNCHANGED << kv, rev >>
        /\ UNCHANGED << handlers, events, call, calls, focus, written >>

\* update(), replace branch: the transaction fails in the substrate.
UpdateTxnFails(p) ==
    /\ pc[p] = "update_txn"
    /\ Return(p, [local[p] EXCEPT !.attempts = @ + 1],
              Result(ErrSubstrate, FALSE, Nil))
    /\ UNCHANGED << kv, rev, handlers, events, call, calls, focus, written >>

\* An insert branch whose put is conditional on the key being absent still.
UpdatePutIfAbsent(p) ==
    LET md == call[p].md
        key == Key(md)
    IN  /\ pc[p] = "update_put"
        /\ local[p].ctx = "active"
        /\ IF key \in DOMAIN kv
           THEN /\ Return(p, [local[p] EXCEPT !.attempts = @ + 1],
                          Result(ErrConcurrentModification, FALSE, Nil))
                /\ UNCHANGED << kv, rev >>
           ELSE /\ kv' = KvPut(key, Marshal(md.spec), rev + 1)
                /\ rev' = rev + 1
                /\ StartNotify(p, [local[p] EXCEPT !.attempts = @ + 1,
                                                   !.wrote = rev + 1],
                               "update", md)
        /\ UNCHANGED << handlers, events, call, calls, focus, written >>

\* update(), insert branch: the unconditional put, issued with the caller's
\* context.
UpdatePut(p) ==
    LET md == call[p].md
        key == Key(md)
    IN  /\ pc[p] = "update_put"
        /\ local[p].ctx = "active"
        /\ kv' = KvPut(key, Marshal(md.spec), rev + 1)
        /\ rev' = rev + 1
        /\ StartNotify(p, [local[p] EXCEPT !.attempts = @ + 1,
                                           !.wrote = rev + 1], "update", md)
        /\ UNCHANGED << handlers, events, call, calls, focus, written >>

\* update(), insert branch: the put fails, in the substrate or on the
\* caller's context.
UpdatePutFails(p) ==
    /\ pc[p] = "update_put"
    /\ Return(p, [local[p] EXCEPT !.attempts = @ + 1],
              Result(ErrSubstrate, FALSE, Nil))
    /\ UNCHANGED << kv, rev, handlers, events, call, calls, focus, written >>

\* A loop that ranges over e.handlers from the last registered to the first.
NotifyStepBackwards(p) ==
    LET loc == local[p]
        h == handlers[loc.hn - loc.i + 1]
    IN  /\ pc[p] = "notify"
        /\ loc.i <= loc.hn
        /\ events' =
              IF InterestOf(h, loc.note.md.kind)
              THEN Append(events, [handler |-> h.id, type |-> loc.note.type,
                                   md |-> loc.note.md, cid |-> loc.cid,
                                   at |-> rev])
              ELSE events
        /\ local' = [local EXCEPT ![p].i = @ + 1]
        /\ UNCHANGED << kv, rev, handlers, pc, call, ret, calls, focus, written >>

\* One turn of the loop of notifyUpdate / notifyDelete: the next handler is
\* called if it is interested. The callback runs in the loop, in the caller's
\* goroutine: it has returned when the turn ends.
NotifyStep(p) ==
    LET loc == local[p]
        h == handlers[loc.i]
    IN  /\ pc[p] = "notify"
        /\ loc.i <= loc.hn
        /\ events' =
              IF InterestOf(h, loc.note.md.kind)
              THEN Append(events, [handler |-> h.id, type |-> loc.note.type,
                                   md |-> loc.note.md, cid |-> loc.cid,
                                   at |-> rev])
              ELSE events
        /\ local' = [local EXCEPT ![p].i = @ + 1]
        /\ UNCHANGED << kv, rev, handlers, pc, call, ret, calls, focus, written >>

\* A loop that ends after its first turn.
NotifyDoneEarly(p) ==
    /\ pc[p] = "notify"
    /\ local[p].i > 1 \/ local[p].i > local[p].hn
    /\ Return(p, local[p], Result(ErrNil, call[p].op # "Update", Nil))
    /\ UNCHANGED << kv, rev, handlers, events, call, calls, focus, written >>

\* The loop is over and the call returns: nil from update, true from delete
\* and DeleteGroup.
NotifyDone(p) ==
    /\ pc[p] = "notify"
    /\ local[p].i > local[p].hn
    /\ Return(p, local[p], Result(ErrNil, call[p].op # "Update", Nil))
    /\ UNCHANGED << kv, rev, handlers, events, call, calls, focus, written >>

\* delete() that reports a deletion whatever kv.Delete deleted.
DeleteAlwaysTrue(p, kind, group, name) ==
    LET md == DeleteMetadata(kind, group, name)
        key == Key(md)
        loc == [Fresh(key) EXCEPT !.attempts = 1]
    IN  /\ Begin(p, "Delete", md)
        /\ IF key \in DOMAIN kv
           THEN /\ kv' = KvDelete({key})
                /\ rev' = rev + 1
                /\ StartNotify(p, [loc EXCEPT !.wrote = rev + 1], "delete",
                               [md EXCEPT !.spec = Unmarshal(kv[key].value, kind).msg])
           ELSE /\ Return(p, loc, Result(ErrNil, TRUE, Nil))
                /\ UNCHANGED << kv, rev >>
        /\ UNCHANGED << handlers, events, focus, written >>

\* delete(): kv.Delete of the key with the previous value returned; when a
\* value was deleted and decodes, the delete notification carries it.
Delete(p, kind, group, name) ==
    LET md == DeleteMetadata(kind, group, name)
        key == Key(md)
        loc == [Fresh(key) EXCEPT !.attempts = 1]
    IN  /\ Begin(p, "Delete", md)
        /\ IF key \in DOMAIN kv
           THEN LET message == Unmarshal(kv[key].value, kind) IN
                /\ kv' = KvDelete({key})
                /\ rev' = rev + 1
                /\ IF message.ok
                   THEN StartNotify(p, [loc EXCEPT !.wrote = rev + 1], "delete",
                                    [md EXCEPT !.spec = message.msg])
                   ELSE Return(p, [loc EXCEPT !.wrote = rev + 1],
                               Result(ErrNil, TRUE, Nil))
           ELSE /\ Return(p, loc, Result(ErrNil, FALSE, Nil))
                /\ UNCHANGED << kv, rev >>
        /\ UNCHANGED << handlers, events, focus, written >>

\* delete(): kv.Delete fails in the substrate.
DeleteFails(p, kind, group, name) ==
    /\ Begin(p, "Delete", DeleteMetadata(kind, group, name))
    /\ Return(p, [Blind EXCEPT !.attempts = 1], Result(ErrSubstrate, FALSE, Nil))
    /\ UNCHANGED << kv, rev, handlers, events, focus, written >>

\* DeleteGroup(), up to its range delete: GetGroup reads the group.
DeleteGroupRead(p, group) ==
    LET md == DeleteMetadata(KindGroup, << >>, group)
        key == formatGroupKey(group)
        g == get(key, KindGroup)
    IN  /\ Begin(p, "DeleteGroup", md)
        /\ IF g.err # ErrNil
           THEN Return(p, Fresh(key), Result(g.err, FALSE, Nil))
           ELSE Goto(p, [Fresh(key) EXCEPT !.g = g.entity], "deletegroup_delete")
        /\ UNCHANGED << kv, rev, handlers, events, focus, written >>

\* DeleteGroup(): the range delete of everything under "/groups/<name>/",
\* <name> being the name in the group read; the Group-level notification is
\* sent if anything was deleted.
DeleteGroupDelete(p) ==
    LET g == local[p].g
        keyPrefix == GroupsKeyPrefix \o g.name \o << 47 >>
        D == KvRange(keyPrefix, incrementLastByte(keyPrefix))
        loc == [local[p] EXCEPT !.attempts = @ + 1]
    IN  /\ pc[p] = "deletegroup_delete"
        /\ local[p].ctx = "active"
        /\ IF D # {}
           THEN /\ kv' = KvDelete(D)
                /\ rev' = rev + 1
                /\ StartNotify(p, [loc EXCEPT !.wrote = rev + 1], "delete",
                               [call[p].md EXCEPT !.spec = g])
           ELSE /\ Return(p, loc, Result(ErrNil, TRUE, Nil))
                /\ UNCHANGED << kv, rev >>
        /\ UNCHANGED << handlers, events, call, calls, focus, written >>

\* DeleteGroup(): the range delete fails, in the substrate or on the caller's
\* context.
DeleteGroupDeleteFails(p) ==
    /\ pc[p] = "deletegroup_delete"
    /\ Return(p, [local[p] EXCEPT !.attempts = @ + 1],
              Result(ErrSubstrate, FALSE, Nil))
    /\ UNCHANGED << kv, rev, handlers, events, call, calls, focus, written >>

\* The caller cancels the context of its call (or its deadline passes) between
\* the call's first request and its write.
Cancel(p) ==
    /\ pc[p] \in {"update_txn", "update_put", "deletegroup_delete"}
    /\ local[p].ctx = "active"
    /\ local' = [local EXCEPT ![p].ctx = "canceled"]
    /\ UNCHANGED << kv, rev, handlers, events, pc, call, ret, calls, focus, written >>

\* GetStream / GetMeasure / GetIndexRule / GetIndexRuleBinding.
Get(p, kind, group, name) ==
    LET md == DeleteMetadata(kind, group, name) IN
    /\ Begin(p, "Get", md)
    /\ Return(p, Fresh(Key(md)), get(Key(md), kind))
    /\ UNCHANGED << kv, rev, handlers, events, focus, written >>

\* GetGroup.
GetGroup(p, group) ==
    /\ Begin(p, "Get", DeleteMetadata(KindGroup, << >>, group))
    /\ Return(p, Fresh(formatGroupKey(group)), get(formatGroupKey(group), KindGroup))
    /\ UNCHANGED << kv, rev, handlers, events, focus, written >>

\* ----------------------------------------------------------------- list

\* The keys of S in the order a range read returns them: ascending.
RECURSIVE KeysInOrder(_)
KeysInOrder(S) ==
    IF S = {} THEN << >>
    ELSE LET first == CHOOSE k \in S : \A j \in S : LexLeq(k, j) IN
         << first >> \o KeysInOrder(S \ {first})

\* The key prefix the typed wrappers of a kind pass on.
EntityKeyPrefix(kind) ==
    IF kind = KindStream THEN StreamKeyPrefix
    ELSE IF kind = KindMeasure THEN MeasureKeyPrefix
    ELSE IF kind = KindIndexRuleBinding THEN IndexRuleBindingKeyPrefix
    ELSE IndexRuleKeyPrefix

\* listWithPrefix() that leaves the read-only fields as they were stored.
listWithPrefixStoredRevisions(prefix, kind) ==
    LET keys == KeysInOrder(KvRange(prefix, incrementLastByte(prefix)))
        ms == [i \in 1..Len(keys) |-> Unmarshal(kv[keys[i]].value, kind)]
    IN  IF \E i \in 1..Len(keys) : ~ms[i].ok
        THEN ListResult(ErrDecode, << >>)
        ELSE ListResult(ErrNil, [i \in 1..Len(keys) |-> ms[i].msg])

\* listWithPrefix(): every value of the range [prefix, incrementLastByte(prefix))
\* decoded as a message of `kind`, with the substrate's revisions of its key
\* assigned to its read-only fields; the first value that does not decode
\* fails the call.
listWithPrefix(prefix, kind) ==
    LET keys == KeysInOrder(KvRange(prefix, incrementLastByte(prefix)))
        ms == [i \in 1..Len(keys) |-> Unmarshal(kv[keys[i]].value, kind)]
    IN  IF \E i \in 1..Len(keys) : ~ms[i].ok
        THEN ListResult(ErrDecode, << >>)
        ELSE ListResult(ErrNil,
                [i \in 1..Len(keys) |->
                    [ms[i].msg EXCEPT
                        !.create_revision = kv[keys[i]].create,
                        !.mod_revision = kv[keys[i]].mod]])

\* A List that scans whatever the group.
ListUnguarded(p, kind, group) ==
    /\ Begin(p, "List", DeleteMetadata(kind, group, << >>))
    /\ Return(p, [Blind EXCEPT !.ranges = 1],
              listWithPrefix(listPrefixesForEntity(group, EntityKeyPrefix(kind)),
                             kind))
    /\ UNCHANGED << kv, rev, handlers, events, focus, written >>

\* ListStream / ListMeasure / ListIndexRule / ListIndexRuleBinding: an empty
\* group is refused, else the entities under the group's prefix of the kind
\* are listed.
List(p, kind, group) ==
    /\ Begin(p, "List", DeleteMetadata(kind, group, << >>))
    /\ IF group = << >>
       THEN Return(p, Blind, ListResult(ErrGroupAbsent, << >>))
       ELSE Return(p, [Blind EXCEPT !.ranges = 1],
                   listWithPrefix(
                       listPrefixesForEntity(group, EntityKeyPrefix(kind)), kind))
    /\ UNCHANGED << kv, rev, handlers, events, focus, written >>

\* The range read of a List fails in the substrate.
ListFails(p, kind, group) ==
    /\ group # << >>
    /\ Begin(p, "List", DeleteMetadata(kind, group, << >>))
    /\ Return(p, [Blind EXCEPT !.ranges = 1], ListResult(ErrSubstrate, << >>))
    /\ UNCHANGED << kv, rev, handlers, events, focus, written >>

\* A ListGroup that decodes every value of the "/groups/" range.
ListGroupUnfiltered(p) ==
    LET keys == KeysInOrder(KvRange(GroupsKeyPrefix,
                                    incrementLastByte(GroupsKeyPrefix)))
        ms == [i \in 1..Len(keys) |-> Unmarshal(kv[keys[i]].value, KindGroup)]
    IN  /\ Begin(p, "ListGroup", DeleteMetadata(KindGroup, << >>, << >>))
        /\ Return(p, [Blind EXCEPT !.ranges = 1],
                  IF \E i \in 1..Len(keys) : ~ms[i].ok
                  THEN ListResult(ErrDecode, << >>)
                  ELSE ListResult(ErrNil, [i \in 1..Len(keys) |-> ms[i].msg]))
        /\ UNCHANGED << kv, rev, handlers, events, focus, written >>

\* ListGroup(): the range read of everything under "/groups/"; the values of
\* the keys that end in GroupMetadataKey are decoded as Groups, as they were
\* stored (no field is assigned).
ListGroup(p) ==
    LET all == KvRange(GroupsKeyPrefix, incrementLastByte(GroupsKeyPrefix))
        keys == KeysInOrder({ k \in all : HasSuffix(k, GroupMetadataKey) })
        ms == [i \in 1..Len(keys) |-> Unmarshal(kv[keys[i]].value, KindGroup)]
    IN  /\ Begin(p, "ListGroup", DeleteMetadata(KindGroup, << >>, << >>))
        /\ Return(p, [Blind EXCEPT !.ranges = 1],
                  IF \E i \in 1..Len(keys) : ~ms[i].ok
                  THEN ListResult(ErrDecode, << >>)
                  ELSE ListResult(ErrNil, [i \in 1..Len(keys) |-> ms[i].msg]))
        /\ UNCHANGED << kv, rev, handlers, events, focus, written >>

\* ------------------------------------------------------ write-path encoder

\* An int64 is written as its four 16-bit limbs << w3, w2, w1, w0 >>, most
\* significant first: w3 is signed (-32768..32767), the others are 0..65535;
\* its value is ((w3 * 65536 + w2) * 65536 + w1) * 65536 + w0.
Int64Less(a, b) ==
    \E i \in 1..4 :
        /\ a[i] < b[i]
        /\ \A j \in 1..(i - 1) : a[j] = b[j]

\* The int64 values taken as samples: the least and the greatest, -1, 0, 1 and
\* values around the byte and limb borders of either sign.
Int64Samples ==
    { << w3, w2, w1, w0 >> :
        w3 \in {-32768, -1, 0, 1, 32767}, w2 \in {0, 65535}, w1 \in {0, 65535},
        w0 \in {0, 1, 255, 256, 65535} }

\* The two bytes of a limb 0..65535, most significant first.
LimbBytes(w) == << w \div 256, w % 256 >>

\* convert.Int64ToBytes: the 8 bytes of uint64(i), big-endian.
Int64ToBytes(i) ==
    LimbBytes(i[1] % 65536) \o LimbBytes(i[2]) \o LimbBytes(i[3])
        \o LimbBytes(i[4])

\* strings.Join that leaves the separator out.
RECURSIVE JoinNoSeparator(_, _)
JoinNoSeparator(elems, sep) ==
    IF elems = << >> THEN << >>
    ELSE elems[1] \o JoinNoSeparator(Tail(elems), sep)

\* strings.Join(elems, sep)
RECURSIVE Join(_, _)
Join(elems, sep) ==
    IF elems = << >> THEN << >>
    ELSE IF Len(elems) = 1 THEN elems[1]
    ELSE elems[1] \o sep \o Join(Tail(elems), sep)

\* The bytes written for a slice of int64: each one's 8 bytes, in order.
RECURSIVE WriteAll(_)
WriteAll(is) ==
    IF is = << >> THEN << >>
    ELSE Int64ToBytes(Head(is)) \o WriteAll(Tail(is))

\* A TagValue: which member of the oneof is set, and the members: the string
\* (or the binary data), the int64, the string array and the int64 array.
TagValue(type, str, int, strArray, intArray) ==
    [type |-> type, str |-> str, int |-> int, strArray |-> strArray,
     intArray |-> intArray]

TagValue_Int(i) == TagValue("Int", << >>, i, << >>, << >>)

\* The tag values callers pass: strings "", "a", "a\nb"; int64 samples; the
\* string arrays [], ["a", "b"], ["a\nb"], ["", "a"], ["b", "a\nb", "a"];
\* int64 arrays of up to two values;
\* binary data; the null value, a TagValue with no value set and one of a
\* variant the switch has no case for.
TagValues ==
    LET a == << 97 >>
        b == << 98 >>
        anb == << 97, 10, 98 >>
        zero == << 0, 0, 0, 0 >>
        one == << 0, 0, 0, 1 >>
        minusOne == << -1, 65535, 65535, 65535 >>
    IN  { TagValue("Str", v, zero, << >>, << >>) : v \in { << >>, a, anb } }
        \cup { TagValue_Int(v) : v \in Int64Samples }
        \cup { TagValue("StrArray", << >>, zero, v, << >>) :
                  v \in { << >>, << a, b >>, << anb >>, << << >>, a >>,
                          << b, anb, a >> } }
        \cup { TagValue("IntArray", << >>, zero, << >>, v) :
                  v \in { << >>, << one >>, << minusOne, one >> } }
        \cup { TagValue("BinaryData", v, zero, << >>, << >>) :
                  v \in { << >>, << 0, 255 >> } }
        \cup { TagValue("Null", << >>, zero, << >>, << >>),
                TagValue("nil", << >>, zero, << >>, << >>),
                TagValue("Other", << >>, zero, << >>, << >>) }

\* What MarshalIndexFieldValue returns: the bytes, nil with an error.
MarshalResult(err, bytes) ==
    [err |-> err, deleted |-> FALSE, entity |-> Nil, entities |-> << >>,
     bytes |-> bytes]

\* The variants MarshalIndexFieldValue has a case for.
IndexableTypes == {"Str", "Int", "StrArray", "IntArray", "BinaryData"}

\* MarshalIndexFieldValue() that returns no bytes and no error for a value it
\* has no case for.
MarshalIndexFieldValueLenient(tagValue) ==
    IF tagValue.type = "Str" \/ tagValue.type = "BinaryData"
    THEN MarshalResult(ErrNil, tagValue.str)
    ELSE IF tagValue.type = "Int"
        THEN MarshalResult(ErrNil, Int64ToBytes(tagValue.int))
    ELSE IF tagValue.type = "StrArray"
        THEN MarshalResult(ErrNil, Join(tagValue.strArray, strDelimiter))
    ELSE IF tagValue.type = "IntArray"
        THEN MarshalResult(ErrNil, WriteAll(tagValue.intArray))
    ELSE MarshalResult(ErrNil, << >>)

\* MarshalIndexFieldValue(): the type switch over the value of the tag.
MarshalIndexFieldValue(tagValue) ==
    IF tagValue.type = "Str" THEN MarshalResult(ErrNil, tagValue.str)
    ELSE IF tagValue.type = "Int"
        THEN MarshalResult(ErrNil, Int64ToBytes(tagValue.int))
    ELSE IF tagValue.type = "StrArray"
        THEN MarshalResult(ErrNil, Join(tagValue.strArray, strDelimiter))
    ELSE IF tagValue.type = "IntArray"
        THEN MarshalResult(ErrNil, WriteAll(tagValue.intArray))
    ELSE IF tagValue.type = "BinaryData"
        THEN MarshalResult(ErrNil, tagValue.str)
    ELSE MarshalResult(ErrUnsupportedTagForIndexField, << >>)

\* A caller encodes the value of a tag.
Encode(p, tagValue) ==
    /\ Begin(p, "MarshalIndexFieldValue", tagValue)
    /\ Return(p, Blind, MarshalIndexFieldValue(tagValue))
    /\ UNCHANGED << kv, rev, handlers, events, focus, written >>

\* ------------------------------------------------------------------ peers

\* Some Update of this registry has read the key and has not issued its
\* transaction yet.
ReadByPending(key) ==
    \E p \in Procs : pc[p] = "update_txn" /\ Key(call[p].md) = key

\* Another registry on the same substrate deletes an entity: the kv.Delete of
\* its delete(). Its handlers are its own. It acts on a key as an Update of
\* this registry read it.
PeerDelete(kind, group, name) ==
    LET key == Key(DeleteMetadata(kind, group, name)) IN
    /\ key \in DOMAIN kv
    /\ \E p \in Procs :
          /\ pc[p] = "update_txn"
          /\ Key(call[p].md) = key
          /\ kv[key].mod = local[p].modRevision
    /\ kv' = KvDelete({key})
    /\ rev' = rev + 1
    /\ UNCHANGED << handlers, events, pc, call, local, ret, calls, focus, written >>

\* Another registry on the same substrate inserts an entity: the kv.Put of
\* the insert branch of its update(). It acts on a key that an Update of this
\* registry has read and that was deleted since.
PeerPut(m) ==
    LET key == Key(UpdateMetadata(m)) IN
    /\ key \notin DOMAIN kv
    /\ ReadByPending(key)
    /\ kv' = KvPut(key, Marshal(m), rev + 1)
    /\ rev' = rev + 1
    /\ UNCHANGED << handlers, events, pc, call, local, ret, calls, focus, written >>

\* ----------------------------------------------------------- stream write

\* An error of Write; the tests tell that one occurred, not which.
ErrMalformedElement == "element is malformed"

\* The tag families of the stream "sw" of the group "default", by the declared
\* type of each tag: "data" holds data_binary; "searchable" holds trace_id,
\* state, service_id, service_instance_id, endpoint_id, duration, start_time,
\* http.method, status_code, db.type, db.instance, mq.queue, mq.topic and
\* mq.broker.
StreamSchema ==
    << << "BinaryData" >>,
       << "Str", "Int", "Str", "Str", "Str", "Int", "Int", "Str", "Str", "Str",
          "Str", "Str", "Str", "Str" >> >>

\* getEle(tags...): the element whose first family is one binary tag and
\* whose second holds the tags, each by the variant getTag() gives it.
getEle(tags) == [isNil |-> FALSE, tagFamilies |-> << << "BinaryData" >>, tags >>]

\* A nil *ElementValue.
NilElement == [isNil |-> TRUE, tagFamilies |-> << >>]

\* The elements the writers pass: those of the tests ("golden path",
\* "minimal", "http", "database", "mq", "invalid trace id", "empty input",
\* "unknown tags"), a string where duration is declared an int, and an
\* element of null tags.
Elements ==
    LET S == "Str"
        I == "Int"
        N == "Null"
        golden == << S, I, S, S, S, I, I >>
        mq == golden \o << N, N, N, N, S, S, S >>
    IN  { getEle(golden),
          getEle(<< N, I, S, S >>),
          getEle(golden \o << S, S >>),
          getEle(golden \o << N, N, S, S >>),
          getEle(mq),
          getEle(<< I, I, S, S >>),
          NilElement,
          getEle(mq \o << S >>),
          getEle(<< S, I, S, S, S, S, I >>),
          getEle(<< N, N, N, N >>) }

\* The first j tags of a family agree with the tag specs: there is a spec for
\* each, and each is null or of the type its spec declares.
RECURSIVE TagsAgree(_, _, _)
TagsAgree(tags, specs, j) ==
    IF j = 0 THEN TRUE
    ELSE /\ TagsAgree(tags, specs, j - 1)
         /\ j <= Len(specs)
         /\ (tags[j] = "Null" \/ tags[j] = specs[j])

\* What Write answers for an element: nil, or the error of the first check
\* that fails.
validate(ele) ==
    IF ele.isNil THEN ErrMalformedElement
    ELSE IF Len(ele.tagFamilies) > Len(StreamSchema) THEN ErrMalformedElement
    ELSE IF \A i \in 1..Len(ele.tagFamilies) :
                TagsAgree(ele.tagFamilies[i], StreamSchema[i],
                          Len(ele.tagFamilies[i]))
    THEN ErrNil
    ELSE ErrMalformedElement

\* A Write that stores whatever element is not nil.
WriteUnchecked(p, ele) ==
    /\ Begin(p, "Write", ele)
    /\ Return(p, Blind, Result(IF ele.isNil THEN ErrMalformedElement ELSE ErrNil,
                               FALSE, Nil))
    /\ written' = IF ele.isNil THEN written ELSE Append(written, ele)
    /\ UNCHANGED << kv, rev, handlers, events, focus >>

\* stream.Write(): the element is checked against the schema and, when it
\* agrees, stored.
Write(p, ele) ==
    /\ Begin(p, "Write", ele)
    /\ Return(p, Blind, Result(validate(ele), FALSE, Nil))
    /\ written' = IF validate(ele) = ErrNil THEN Append(written, ele)
                  ELSE written
    /\ UNCHANGED << kv, rev, handlers, events, focus >>

\* ------------------------------------------------------ the specification

\* The Update calls a registry has served, one after the other, before the
\* calls of a behaviour start: none (the registry as constructed), or the
\* group "g" and the entity in focus with the entity updated
\* once, to a value no caller passes, and, beside them, entities "t" of every
\* kind in "g", the group "ga" with a stream, and the group "g/x".
Served(kind) ==
    LET g == << 103 >>
        ga == << 103, 97 >>
        gx == << 103, 47, 120 >>
        s == << 115 >>
        t == << 116 >>
    IN  { << >>,
          << Message(KindGroup, << >>, g, 1, 0), Message(kind, g, s, 1, 0),
             Message(kind, g, s, 3, 0),
             Message(KindStream, g, t, 1, 0), Message(KindMeasure, g, t, 1, 0),
             Message(KindIndexRuleBinding, g, t, 1, 0),
             Message(KindIndexRule, g, t, 1, 0),
             Message(KindGroup, << >>, ga, 1, 0), Message(KindStream, ga, s, 1, 0),
             Message(KindGroup, << >>, gx, 1, 0) >> }

\* The store after the first n Update calls of ms, each one's put committing
\* at the next revision of a store that starts at revision 1.
RECURSIVE StoreAfter(_, _)
StoreAfter(ms, n) ==
    IF n = 0 THEN << >>
    ELSE KvPutIn(StoreAfter(ms, n - 1), Key(UpdateMetadata(ms[n])),
                 Marshal(ms[n]), n + 1)

\* A registry that has served some Update calls and holds no handler yet; no
\* call is in flight. The callers work on streams, which the handlers take
\* interest in, or on measures, which they do not; index rules and index rule
\* bindings go through the code of measures with another key prefix.
Init ==
    /\ focus \in {KindStream, KindMeasure}
    /\ \E ms \in Served(focus) :
          /\ kv = StoreAfter(ms, Len(ms))
          /\ rev = Len(ms) + 1
    /\ handlers = << >>
    /\ events = << >>
    /\ written = << >>
    /\ pc = [p \in Procs |-> "idle"]
    /\ call = [p \in Procs |-> NoCall]
    /\ local = [p \in Procs |-> NoLocal]
    /\ ret = [p \in Procs |-> NoRet]
    /\ calls = 0

Next ==
    \/ \E mask \in HandlerMasks : RegisterHandler(mask)
    \/ \E p \in Procs :
        \/ \E m \in UpdateInputs : UpdateRead(p, m)
        \/ \E m \in UpdateInputs : UpdateReadFails(p, m)
        \/ UpdateTxn(p)
        \/ UpdateTxnFails(p)
        \/ UpdatePut(p)
        \/ UpdatePutFails(p)
        \/ \E id \in EntityIds : Delete(p, id[1], id[2], id[3])
        \/ \E id \in EntityIds : DeleteFails(p, id[1], id[2], id[3])
        \/ \E g \in GroupNames : DeleteGroupRead(p, g)
        \/ DeleteGroupDelete(p)
        \/ DeleteGroupDeleteFails(p)
        \/ \E id \in EntityIds : Get(p, id[1], id[2], id[3])
        \/ \E g \in GroupNames : GetGroup(p, g)
        \/ NotifyStep(p)
        \/ NotifyDone(p)

\* The calls of callers whose contexts stay active.
Spec == Init /\ [][Next]_vars

\* The calls of callers who may cancel the context of a call in flight.
NextCtx ==
    \/ Next
    \/ \E p \in Procs : Cancel(p)

SpecCtx == Init /\ [][NextCtx]_vars

\* The calls of callers who read, list and mutate a registry that has no
\* handler, no request failing but a List's; the names they pass may hold "/".
NextList ==
    \E p \in Procs :
        \/ \E m \in UpdateInputs \cup SlashInputs : UpdateRead(p, m)
        \/ UpdateTxn(p)
        \/ UpdatePut(p)
        \/ \E id \in EntityIds : Delete(p, id[1], id[2], id[3])
        \/ \E g \in GroupNames : DeleteGroupRead(p, g)
        \/ DeleteGroupDelete(p)
        \/ NotifyDone(p)
        \/ \E id \in EntityIds : Get(p, id[1], id[2], id[3])
        \/ \E g \in GroupNames : GetGroup(p, g)
        \/ \E kind \in EntityKinds, g \in ListGroupNames : List(p, kind, g)
        \/ \E kind \in EntityKinds, g \in ListGroupNames : ListFails(p, kind, g)
        \/ ListGroup(p)

SpecList == Init /\ [][NextList]_vars

\* The Update, Delete and DeleteGroup calls of a registry that has no handler,
\* and the deletes and inserts of another registry on the same substrate.
NextPeers ==
    \/ \E p \in Procs :
        \/ \E m \in UpdateInputs : UpdateRead(p, m)
        \/ UpdateTxn(p)
        \/ UpdatePut(p)
        \/ \E id \in EntityIds : Delete(p, id[1], id[2], id[3])
        \/ \E g \in GroupNames : DeleteGroupRead(p, g)
        \/ DeleteGroupDelete(p)
        \/ NotifyDone(p)
    \/ \E id \in EntityIds : PeerDelete(id[1], id[2], id[3])
    \/ \E m \in UpdateInputs : PeerPut(m)

SpecPeers == Init /\ [][NextPeers]_vars

\* The calls of the writers that encode tag values for the index.
NextEncoder == \E p \in Procs : \E tagValue \in TagValues : Encode(p, tagValue)

SpecEncoder == Init /\ [][NextEncoder]_vars

\* The calls of the writers of the stream.
NextWriter == \E p \in Procs : \E ele \in Elements : Write(p, ele)

SpecWriter == Init /\ [][NextWriter]_vars

\* --------------------------------------------------------------- claims

Done(p) == pc[p] = "done"

Updated(p) == Done(p) /\ call[p].op = "Update"

KeyOf(p) == Key(call[p].md)

\* The callbacks handler h has received for call cid.
EventsOf(cid, h) ==
    { n \in 1..Len(events) : events[n].cid = cid /\ events[n].handler = h }

\* a and b agree in every field but create_revision and mod_revision.
SameButRevisions(a, b) ==
    /\ a.msg = b.msg
    /\ a.group = b.group
    /\ a.name = b.name
    /\ a.body = b.body

\* Two Update calls of different values on one key that read it at the same
\* modification revision, neither failing in the substrate.
Racing(p, q) ==
    /\ p # q
    /\ Updated(p) /\ Updated(q)
    /\ KeyOf(p) = KeyOf(q)
    /\ call[p].md.spec # call[q].md.spec
    /\ local[p].observed > 0
    /\ local[p].observed = local[q].observed
    /\ ret[p].err # ErrSubstrate /\ ret[q].err # ErrSubstrate

\* p won and q lost, and the key holds what p wrote.
WonOver(p, q) ==
    /\ ret[p].err = ErrNil
    /\ ret[q].err = ErrConcurrentModification
    /\ KeyOf(p) \in DOMAIN kv
    /\ kv[KeyOf(p)].value = Marshal(call[p].md.spec)

\* C1, as stated: of two concurrent Update calls with different values that
\* read the same modification revision of the key, exactly one returns success
\* and the other ErrConcurrentModification, and the key then holds the
\* winner's value.
C1_AsStated ==
    \A p, q \in Procs : Racing(p, q) => WonOver(p, q) \/ WonOver(q, p)

\* Both values differ semantically from the value the calls read.
BothChange(p, q) ==
    /\ ~Equal(call[p].md, local[p].existingVal)
    /\ ~Equal(call[q].md, local[q].existingVal)

\* C1, amended: of two concurrent Update calls with different values that
\* read the same modification revision of the key, both values differing
\* semantically from the stored one (and no third call writing the key),
\* exactly one returns success and the other ErrConcurrentModification, and
\* the key then holds the winner's value.
C1_OneWins ==
    \A p, q \in Procs :
        Racing(p, q) /\ BothChange(p, q) => WonOver(p, q) \/ WonOver(q, p)

C1_Witness ==
    \E p, q \in Procs : Racing(p, q) /\ BothChange(p, q) /\ WonOver(p, q)

\* The step in which the transaction of p's Update is answered by the
\* substrate, the key's modification revision no longer being the one read.
Rejected(p) ==
    /\ pc[p] = "update_txn"
    /\ pc'[p] # "update_txn"
    /\ ret'[p].err # ErrSubstrate
    /\ ModRevision(KeyOf(p)) # local[p].modRevision

\* C2: when the conditional write of an Update is rejected because the key's
\* modification revision changed since the read, the call returns
\* ErrConcurrentModification, the store (every key's value and revisions) is
\* as it was, no notification is dispatched, and the call ends after that one
\* write attempt.
C2_RejectedLeavesAll ==
    [][\A p \in Procs :
          Rejected(p) =>
              /\ pc'[p] = "done"
              /\ ret'[p].err = ErrConcurrentModification
              /\ kv' = kv
              /\ rev' = rev
              /\ events' = events
              /\ local'[p].attempts = 1
              /\ local'[p].wrote = 0]_vars

C2_Witness ==
    \E p \in Procs :
        /\ Updated(p)
        /\ ret[p].err = ErrConcurrentModification
        /\ local[p].attempts = 1
        /\ ModRevision(KeyOf(p)) # local[p].modRevision

\* The step in which p calls Update with a message whose bytes are the ones
\* stored under its key (as an earlier Update of the same message left them),
\* the read not failing.
UpdatesSame(p) ==
    /\ calls' = calls + 1
    /\ local'[p].cid = calls'
    /\ call'[p].op = "Update"
    /\ Key(call'[p].md) \in DOMAIN kv
    /\ kv[Key(call'[p].md)].value = Marshal(call'[p].md.spec)
    /\ ret'[p].err # ErrSubstrate

\* C3: an Update of a message identical to the one an Update stored, with no
\* mutation of the key in between, writes nothing: it returns success at once
\* and the key's value and modification revision (the whole store) are
\* unchanged.
C3_SecondUpdateNoWrite ==
    [][\A p \in Procs :
          UpdatesSame(p) =>
              /\ pc'[p] = "done"
              /\ ret'[p].err = ErrNil
              /\ kv' = kv
              /\ rev' = rev
              /\ events' = events
              /\ local'[p].attempts = 0]_vars

\* The second of two Update calls of the same message has returned without a
\* write; the first one's notification is on record.
C3_Witness ==
    \E p \in Procs :
        /\ Updated(p)
        /\ ret[p].err = ErrNil
        /\ local[p].attempts = 0
        /\ local[p].cid = 2
        /\ KeyOf(p) \in DOMAIN kv
        /\ kv[KeyOf(p)].value = Marshal(call[p].md.spec)
        /\ kv[KeyOf(p)].mod = local[p].observed
        /\ \E n \in 1..Len(events) :
              /\ events[n].cid = 1
              /\ events[n].type = "update"
              /\ events[n].md = call[p].md

\* The key of p's returned Update has not been mutated since: it is at the
\* revision p wrote it at, or, p having written nothing, at the one p read.
Unmutated(p) ==
    /\ KeyOf(p) \in DOMAIN kv
    /\ kv[KeyOf(p)].mod =
          IF local[p].wrote > 0 THEN local[p].wrote ELSE local[p].observed

\* Get right after p's Update returns the entity p passed, but for the
\* revision fields.
GetsBack(p) ==
    LET r == get(KeyOf(p), call[p].md.kind) IN
    /\ r.err = ErrNil
    /\ SameButRevisions(r.entity, call[p].md.spec)

\* C4, as stated: after a successful Update(E) and no other mutation of the
\* key, Get returns E but for the revision fields, with a mod_revision
\* strictly greater than the key's before the Update.
C4_AsStated ==
    \A p \in Procs :
        Updated(p) /\ ret[p].err = ErrNil /\ Unmutated(p) =>
            /\ GetsBack(p)
            /\ get(KeyOf(p), call[p].md.kind).entity.mod_revision
                  > local[p].observed

\* C4, amended: after a successful Update(E) and no other mutation of the
\* key, Get returns E but for the revision fields; its mod_revision is
\* strictly greater than the key's before the Update when the Update wrote (a
\* first insert or a changed value), and equal to it when E was semantically
\* equal to the stored value and nothing was written.
C4_UpdateThenGet ==
    \A p \in Procs :
        Updated(p) /\ ret[p].err = ErrNil /\ Unmutated(p) =>
            /\ GetsBack(p)
            /\ LET mod == get(KeyOf(p), call[p].md.kind).entity.mod_revision IN
               IF local[p].wrote > 0
               THEN mod > local[p].observed
               ELSE mod = local[p].observed

\* An Update of a changed value with client-set revision fields has returned.
C4_Witness ==
    \E p \in Procs :
        /\ Updated(p) /\ ret[p].err = ErrNil /\ Unmutated(p)
        /\ local[p].wrote > local[p].observed
        /\ local[p].observed > 0
        /\ call[p].md.spec.mod_revision = 9

\* What Get returns for a stored key, decoded as the kind it was stored as.
Got(key) == get(key, kv[key].value.wire).entity

\* C5: the Get of a key right after its first insert returns
\* create_revision = mod_revision; an Update that changes the value of a stored
\* key leaves Get's create_revision as it was and makes its mod_revision
\* strictly greater.
C5_Revisions ==
    [][\A key \in DOMAIN kv' :
          /\ key \notin DOMAIN kv =>
                Got(key)'.create_revision = Got(key)'.mod_revision
          /\ key \in DOMAIN kv /\ kv'[key].value # kv[key].value =>
                /\ Got(key)'.mod_revision > Got(key).mod_revision
                /\ Got(key)'.create_revision = Got(key).create_revision]_vars

\* An Update has changed the value of a key inserted before.
C5_Witness ==
    \E p \in Procs :
        /\ Updated(p) /\ ret[p].err = ErrNil /\ Unmutated(p)
        /\ local[p].observed > 0
        /\ local[p].wrote > 0
        /\ Got(KeyOf(p)).create_revision < Got(KeyOf(p)).mod_revision

\* The handlers interested in the kind of p's call among those its dispatch
\* loop ranges over.
Interested(p) ==
    { h \in 1..local[p].hn : InterestOf(handlers[h], call[p].md.kind) }

\* Handler h has received exactly n callbacks of type `type` for p's call.
Received(p, h, type, n) ==
    LET es == EventsOf(local[p].cid, h) IN
    /\ Cardinality(es) = n
    /\ \A e \in es : events[e].type = type

\* C6: an Update call that has returned has dispatched one update notification
\* to each interested handler if it returned success and changed the store (a
\* first insert or a successful compare-and-swap), and none at all otherwise
\* (a no-op, a failed compare-and-swap, a substrate or decoding error).
C6_NotifiesIffChanged ==
    \A p \in Procs :
        Updated(p) =>
            \A h \in 1..Len(handlers) :
                IF ret[p].err = ErrNil /\ local[p].wrote > 0 /\ h \in Interested(p)
                THEN Received(p, h, "update", 1)
                ELSE Received(p, h, "update", 0)

\* A successful compare-and-swap has notified two handlers, once each.
C6_Witness ==
    \E p \in Procs :
        /\ Updated(p) /\ ret[p].err = ErrNil
        /\ local[p].wrote > local[p].observed
        /\ local[p].observed > 0
        /\ Interested(p) = {1, 2}
        /\ Received(p, 1, "update", 1) /\ Received(p, 2, "update", 1)

\* C7: dispatch is synchronous with the mutation. At every moment of every
\* behaviour: while a call has not committed its mutation no handler has been
\* called for it; the handlers are called, in turn, after the commit and
\* before the call returns; a call of Update or Delete that has returned
\* success after a mutation has called every interested handler.
C7_Synchronous ==
    [](\A p \in Procs :
        LET sent == { events[n].handler :
                        n \in { m \in 1..Len(events) :
                                  events[m].cid = local[p].cid } }
            interested == Interested(p)
        IN
        /\ call[p].op \in {"Update", "Delete", "DeleteGroup"} /\ local[p].wrote = 0
              => sent = {}
        /\ \A n \in 1..Len(events) :
              events[n].cid = local[p].cid =>
                  /\ local[p].wrote > 0
                  /\ local[p].wrote <= events[n].at
        /\ pc[p] = "notify" =>
              sent = { h \in interested : h < local[p].i }
        /\ Done(p) /\ call[p].op \in {"Update", "Delete"}
                   /\ ret[p].err = ErrNil /\ local[p].wrote > 0
              => sent = interested)

\* A Delete has returned after two handlers were called for it.
C7_Witness ==
    \E p \in Procs :
        /\ Done(p) /\ call[p].op = "Delete" /\ ret[p].deleted
        /\ Interested(p) = {1, 2}
        /\ \A h \in {1, 2} : EventsOf(local[p].cid, h) # {}

Deleted(p) == Done(p) /\ call[p].op = "Delete" /\ ret[p].err = ErrNil

\* The step in which p calls Delete on a stored key whose bytes decode, the
\* request not failing.
DeletesStored(p) ==
    /\ calls' = calls + 1
    /\ local'[p].cid = calls'
    /\ call'[p].op = "Delete"
    /\ ret'[p].err # ErrSubstrate
    /\ Key(call'[p].md) \in DOMAIN kv
    /\ kv[Key(call'[p].md)].value.wire = call'[p].md.kind

\* A Delete that has returned: it returned true exactly if its kv.Delete found
\* the key stored, and then each interested handler has received one delete
\* notification, the one the call prepared; else none has.
DeleteOutcome(p) ==
    /\ ret[p].deleted <=> local[p].observed > 0
    /\ ret[p].deleted <=> local[p].wrote > 0
    /\ \A h \in 1..Len(handlers) :
          IF ret[p].deleted /\ h \in Interested(p)
          THEN /\ Received(p, h, "delete", 1)
               /\ \A e \in EventsOf(local[p].cid, h) :
                     events[e].md = local[p].note.md
          ELSE Received(p, h, "delete", 0)

\* C8: a Delete of a stored, decodable Stream, Measure, IndexRule or
\* IndexRuleBinding removes the key and prepares a delete notification that
\* carries the entity stored right before; it returns true after each
\* interested handler has received that notification once. Of the Delete calls
\* on one identity, only the one whose kv.Delete found the key stored returns
\* true and notifies: no two of them removed the same stored entity.
C8_DeleteOnce ==
    /\ [][\A p \in Procs :
            DeletesStored(p) =>
                /\ Key(call'[p].md) \notin DOMAIN kv'
                /\ pc'[p] = "notify"
                /\ local'[p].note =
                      [type |-> "delete",
                       md |-> [call'[p].md EXCEPT
                                 !.spec = kv[Key(call'[p].md)].value.data]]]_vars
    /\ [](\A p \in Procs :
            Deleted(p) =>
                /\ DeleteOutcome(p)
                /\ \A q \in Procs \ {p} :
                      Deleted(q) /\ KeyOf(q) = KeyOf(p)
                                 /\ ret[p].deleted /\ ret[q].deleted
                          => local[p].observed # local[q].observed)

\* Two concurrent Delete calls on one stored identity have returned, one true
\* after notifying a handler, the other false.
C8_Witness ==
    \E p, q \in Procs :
        /\ Deleted(p) /\ Deleted(q) /\ p # q
        /\ KeyOf(p) = KeyOf(q)
        /\ ret[p].deleted /\ ~ret[q].deleted
        /\ Interested(p) # {}
        /\ \A h \in Interested(p) : Received(p, h, "delete", 1)

\* C9: a Delete of a key that is not stored returns deleted = false and no
\* error, dispatches no notification and changes no stored state, for the
\* Delete of every kind, DeleteGroup of a group that does not exist included.
C9_DeleteAbsent ==
    \A p \in Procs :
        /\ Done(p)
        /\ call[p].op \in {"Delete", "DeleteGroup"}
        /\ local[p].observed = 0
        /\ ret[p].err # ErrSubstrate
        => /\ ret[p].deleted = FALSE
           /\ ret[p].err = ErrNil
           /\ local[p].wrote = 0
           /\ \A h \in 1..Len(handlers) : EventsOf(local[p].cid, h) = {}

EntityKeyPrefixes ==
    { StreamKeyPrefix, MeasureKeyPrefix, IndexRuleBindingKeyPrefix,
      IndexRuleKeyPrefix }

\* key is the metadata key of group g or the key of an entity of g.
OfGroup(key, g) ==
    \/ key = formatGroupKey(g)
    \/ \E entityPrefix \in EntityKeyPrefixes :
          HasPrefix(key, listPrefixesForEntity(g, entityPrefix))

\* The step in which the range delete of p's DeleteGroup deletes.
GroupDeleted(p) ==
    /\ pc[p] = "deletegroup_delete"
    /\ pc'[p] = "notify"

\* C10: DeleteGroup(g) of an existing group removes, in one step, all and only
\* the keys of g (its metadata key and the keys of its Streams, Measures,
\* IndexRules and IndexRuleBindings); Get of g and of every entity that was
\* under g then returns ErrEntityNotFound, and every key of every other group,
\* those whose name starts with g included, is as it was.
C10_GroupOnly ==
    [][\A p \in Procs :
          GroupDeleted(p) =>
              \A key \in DOMAIN kv :
                  IF OfGroup(key, call[p].md.name)
                  THEN get(key, kv[key].value.wire)'.err = ErrEntityNotFound
                  ELSE key \in DOMAIN kv' /\ kv'[key] = kv[key]]_vars

\* A DeleteGroup that has returned deleted = true and no error.
GroupDeleteSucceeded(p) ==
    /\ Done(p)
    /\ call[p].op = "DeleteGroup"
    /\ ret[p].err = ErrNil
    /\ ret[p].deleted

\* C11: a DeleteGroup that has returned success has dispatched, to each handler
\* interested in groups, exactly one delete notification, of kind Group and
\* carrying the group as the call read it before the deletion, and has
\* dispatched no notification of kind Stream, Measure, IndexRule or
\* IndexRuleBinding.
C11_GroupLevelOnly ==
    \A p \in Procs :
        GroupDeleteSucceeded(p) =>
            /\ \A n \in 1..Len(events) :
                  events[n].cid = local[p].cid =>
                      /\ events[n].type = "delete"
                      /\ events[n].md.kind = KindGroup
                      /\ events[n].md.name = call[p].md.name
                      /\ events[n].md.spec = local[p].g
            /\ \A h \in 1..Len(handlers) :
                  InterestOf(handlers[h], KindGroup) =>
                      Cardinality(EventsOf(local[p].cid, h)) = 1

\* The step in which the write of p's Update, its context cancelled since the
\* read, is issued or given up: the call leaves the place of its write.
WritesCancelled(p) ==
    /\ pc[p] \in {"update_txn", "update_put"}
    /\ local[p].ctx = "canceled"
    /\ pc'[p] # pc[p]

\* C12: an Update whose context is cancelled after its read and before its
\* write returns an error, writes nothing to the substrate and dispatches no
\* notification, on the insert path and on the compare-and-swap path.
C12_HonoursContext ==
    [][\A p \in Procs :
          WritesCancelled(p) =>
              /\ pc'[p] = "done"
              /\ ret'[p].err # ErrNil
              /\ kv' = kv
              /\ rev' = rev
              /\ events' = events]_vars

\* mask and kind have a bit in common.
SharesBit(mask, kind) ==
    \E b \in 0..(KindBits - 1) :
        /\ (mask \div (2 ^ b)) % 2 = 1
        /\ (kind \div (2 ^ b)) % 2 = 1

\* InterestOf is the bit test, for every mask over the kinds and every kind.
InterestOfIsBitTest ==
    \A mask \in 0..KindMask, kind \in Kinds :
        InterestOf([interestKeys |-> mask], kind) <=> SharesBit(mask, kind)

\* The handlers called for p's call.
NotifiedFor(p) ==
    { events[n].handler :
        n \in { m \in 1..Len(events) : events[m].cid = local[p].cid } }

\* p's call has committed a mutation and returned success.
Mutated(p) ==
    /\ Done(p)
    /\ call[p].op \in {"Update", "Delete", "DeleteGroup"}
    /\ ret[p].err = ErrNil
    /\ local[p].wrote > 0

\* C13: for a mutation of an entity of kind K, the handlers notified are
\* exactly the registered handlers whose interest mask shares a bit with K,
\* each notification being of kind K; no handler is ever called for a kind
\* its mask does not include, and InterestOf is the test mask & K != 0.
C13_InterestFilter ==
    [](/\ InterestOfIsBitTest
       /\ \A n \in 1..Len(events) :
             SharesBit(handlers[events[n].handler].interestKeys,
                       events[n].md.kind)
       /\ \A p \in Procs :
             Mutated(p) =>
                 /\ NotifiedFor(p) =
                       { h \in 1..Len(handlers) :
                           SharesBit(handlers[h].interestKeys, call[p].md.kind) }
                 /\ \A n \in 1..Len(events) :
                       events[n].cid = local[p].cid =>
                           events[n].md.kind = call[p].md.kind)

\* A handler registered for groups and streams has been notified of a
\* mutation of a group and of a mutation of a stream.
C13_Witness ==
    \E n, m \in 1..Len(events) :
        /\ events[n].handler = events[m].handler
        /\ handlers[events[n].handler].interestKeys = KindGroup + KindStream
        /\ events[n].md.kind = KindGroup
        /\ events[m].md.kind = KindStream
        /\ \A p \in Procs : Mutated(p)

\* A measure has been mutated and no handler called, none being interested.
C13_WitnessNone ==
    \E p \in Procs :
        /\ Mutated(p)
        /\ call[p].md.kind = KindMeasure
        /\ handlers # << >>
        /\ NotifiedFor(p) = {}

\* C14: within one mutation the interested handlers are called one at a
\* time in the order of their registration: of two callbacks of one call, the
\* one of the handler registered first has completed before the other starts.
C14_RegistrationOrder ==
    [](\A n, m \in 1..Len(events) :
          n < m /\ events[n].cid = events[m].cid
              => events[n].handler < events[m].handler)

\* Two interested handlers have been called for one mutation.
C14_Witness ==
    \E n, m \in 1..Len(events) :
        /\ n < m
        /\ events[n].cid = events[m].cid
        /\ events[n].handler = 1
        /\ events[m].handler = 2

\* The step in which p calls List of a kind with a group that is not empty,
\* the range read not failing.
Lists(p) ==
    /\ calls' = calls + 1
    /\ local'[p].cid = calls'
    /\ call'[p].op = "List"
    /\ call'[p].md.group # << >>
    /\ ret'[p].err # ErrSubstrate

\* The stored messages of a kind whose metadata names a group.
StoredOf(kind, group) ==
    { kv[k].value.data : k \in { j \in DOMAIN kv :
        /\ kv[j].value.wire = kind
        /\ kv[j].value.data.group = group } }

\* The sequence es holds the messages of S, one element for each, but for the
\* revision fields.
HoldsExactly(es, S) ==
    /\ Len(es) = Cardinality(S)
    /\ \A i \in 1..Len(es) : \E m \in S : SameButRevisions(es[i], m)
    /\ \A m \in S : \E i \in 1..Len(es) : SameButRevisions(es[i], m)

\* C15: List(group, kind) with a group that is not empty succeeds and returns
\* the entities of that kind stored under that group, one result for each:
\* none of another kind or group, none left out.
C15_ListExact ==
    [][\A p \in Procs :
          Lists(p) =>
              /\ ret'[p].err = ErrNil
              /\ HoldsExactly(ret'[p].entities,
                              StoredOf(call'[p].md.kind, call'[p].md.group))]_vars

\* No stored message has a "/" in its group or in its name.
PlainNames ==
    \A k \in DOMAIN kv :
        /\ \A i \in 1..Len(kv[k].value.data.group) : kv[k].value.data.group[i] # 47
        /\ \A i \in 1..Len(kv[k].value.data.name) : kv[k].value.data.name[i] # 47

\* List is exact in a store whose groups and names hold no "/".
ListExactOfPlainNames ==
    [][\A p \in Procs :
          Lists(p) /\ PlainNames =>
              /\ ret'[p].err = ErrNil
              /\ HoldsExactly(ret'[p].entities,
                              StoredOf(call'[p].md.kind, call'[p].md.group))]_vars

\* The message e carries the revisions the substrate holds for its key.
CarriesSubstrateRevisions(e) ==
    LET key == Key([kind |-> e.msg, group |-> e.group, name |-> e.name]) IN
    /\ key \in DOMAIN kv
    /\ e.create_revision = kv[key].create
    /\ e.mod_revision = kv[key].mod

\* The step in which a call of p whose operation is one of ops returns
\* entities without an error.
Reads(p, ops) ==
    /\ calls' = calls + 1
    /\ local'[p].cid = calls'
    /\ call'[p].op \in ops
    /\ ret'[p].err = ErrNil

\* The entities a call of p has returned: the one of a Get, those of a List.
ReturnedBy(r) ==
    (IF r.entity = Nil THEN {} ELSE { r.entity })
        \cup { r.entities[i] : i \in 1..Len(r.entities) }

\* C16: every entity a Get or a List returns (of a group or of an entity of a
\* group, the listing of the groups included) carries the create and
\* modification revisions the substrate holds for its key, whatever revisions
\* the client supplied when it stored the entity.
C16_SubstrateRevisions ==
    [][\A p \in Procs :
          Reads(p, {"Get", "List", "ListGroup"}) =>
              \A e \in ReturnedBy(ret'[p]) : CarriesSubstrateRevisions(e)]_vars

\* The entities that get() and listWithPrefix() return carry the substrate's
\* revisions.
SubstrateRevisionsOfGetAndList ==
    [][\A p \in Procs :
          Reads(p, {"Get", "List"}) =>
              \A e \in ReturnedBy(ret'[p]) : CarriesSubstrateRevisions(e)]_vars

\* The stored Group messages.
StoredGroups == { kv[k].value.data : k \in { j \in DOMAIN kv :
                                              kv[j].value.wire = KindGroup } }

\* C17: ListGroup succeeds and returns the stored groups, one Group for each,
\* and nothing that is stored as a Stream, a Measure, an IndexRule or an
\* IndexRuleBinding, whatever entities the store holds.
C17_ListGroupExact ==
    [][\A p \in Procs :
          calls' = calls + 1 /\ local'[p].cid = calls' /\ call'[p].op = "ListGroup" =>
              /\ ret'[p].err = ErrNil
              /\ HoldsExactly(ret'[p].entities, StoredGroups)]_vars

\* ListGroup is exact in a store whose groups and names hold no "/".
ListGroupExactOfPlainNames ==
    [][\A p \in Procs :
          /\ calls' = calls + 1 /\ local'[p].cid = calls'
          /\ call'[p].op = "ListGroup" /\ PlainNames
          => /\ ret'[p].err = ErrNil
             /\ HoldsExactly(ret'[p].entities, StoredGroups)]_vars

\* C18: a List with an empty group fails with ErrGroupAbsent for each of the
\* four entity kinds, without a range read of the substrate and without a
\* change of the store, of its revision or of what the handlers were told.
C18_EmptyGroupRefused ==
    [][\A p \in Procs :
          /\ calls' = calls + 1 /\ local'[p].cid = calls'
          /\ call'[p].op = "List" /\ call'[p].md.group = << >>
          => /\ ret'[p].err = ErrGroupAbsent
             /\ ret'[p].entities = << >>
             /\ local'[p].ranges = 0
             /\ UNCHANGED << kv, rev, events, handlers >>]_vars

\* A List with an empty group has returned, for a kind, in a store that holds
\* entities of that kind.
EmptyGroupListed(kind) ==
    \E p \in Procs :
        /\ pc[p] = "done" /\ call[p].op = "List"
        /\ call[p].md.group = << >> /\ call[p].md.kind = kind
        /\ ret[p].err = ErrGroupAbsent
        /\ \E k \in DOMAIN kv : kv[k].value.wire = kind

C18_Witness == EmptyGroupListed(KindIndexRule)

\* The catalog a group must be of to hold entities of a kind.
CatalogFor(kind) ==
    IF kind = KindStream THEN CATALOG_STREAM ELSE CATALOG_MEASURE

\* The step in which the Update of a Stream or of a Measure that is not
\* stored yet writes it.
StoresEntity(p) ==
    /\ pc[p] = "update_put"
    /\ pc'[p] # pc[p]
    /\ call[p].md.kind \in {KindStream, KindMeasure}
    /\ local'[p].wrote = rev'
    /\ rev' = rev + 1

\* C19: an Update stores a Stream under a stored group only if the group is of
\* the stream catalog, and a Measure only if it is of the measure catalog; the
\* Update of an entity of the other kind writes nothing.
C19_CatalogConformance ==
    [][\A p \in Procs :
          LET gk == formatGroupKey(call[p].md.group) IN
          StoresEntity(p) /\ gk \in DOMAIN kv =>
              GetCatalog(Unmarshal(kv[gk].value, KindGroup).msg)
                  = CatalogFor(call[p].md.kind)]_vars

OrderPreservingWithinSign ==
    \A p \in Procs :
        /\ pc[p] = "done"
        /\ call[p].op = "MarshalIndexFieldValue"
        /\ call[p].md.type = "Int"
        => \A b \in Int64Samples :
              (b[1] < 0) = (call[p].md.int[1] < 0) =>
                 /\ Int64Less(call[p].md.int, b) =>
                        LexLess(ret[p].bytes, Int64ToBytes(b))
                 /\ Int64Less(b, call[p].md.int) =>
                        LexLess(Int64ToBytes(b), ret[p].bytes)

\* A call of MarshalIndexFieldValue by p has returned.
Marshalled(p) ==
    /\ pc[p] = "done"
    /\ call[p].op = "MarshalIndexFieldValue"

\* C21: MarshalIndexFieldValue of a null TagValue, of one with no variant set
\* or of a variant it does not know returns ErrUnsupportedTagForIndexField
\* and no bytes, never success.
C21_RejectsNonIndexable ==
    \A p \in Procs :
        Marshalled(p) /\ call[p].md.type \notin IndexableTypes =>
            /\ ret[p].err = ErrUnsupportedTagForIndexField
            /\ ret[p].bytes = << >>

\* The null value has been passed and refused.
C21_Witness ==
    \E p \in Procs :
        /\ Marshalled(p)
        /\ call[p].md.type = "Null"
        /\ ret[p].err # ErrNil

\* Where the k-th element of a string array starts in its reference encoding,
\* counted from 0: after the elements before it and one newline for each.
RECURSIVE OffsetOf(_, _)
OffsetOf(elems, k) ==
    IF k = 1 THEN 0
    ELSE OffsetOf(elems, k - 1) + Len(elems[k - 1]) + 1

\* bytes is the elements in array order with one newline between neighbours.
IsJoinedByNewline(bytes, elems) ==
    LET n == Len(elems) IN
    /\ Len(bytes) = IF n = 0 THEN 0 ELSE OffsetOf(elems, n) + Len(elems[n])
    /\ \A k \in 1..n :
          /\ SubSeq(bytes, OffsetOf(elems, k) + 1,
                    OffsetOf(elems, k) + Len(elems[k])) = elems[k]
          /\ k < n => bytes[OffsetOf(elems, k) + Len(elems[k]) + 1] = 10

\* bytes is the 8-byte encodings of the int64 values, in array order.
IsConcatenationOfEncodings(bytes, is) ==
    /\ Len(bytes) = 8 * Len(is)
    /\ \A k \in 1..Len(is) :
          SubSeq(bytes, 8 * (k - 1) + 1, 8 * k) = Int64ToBytes(is[k])

\* C22: for a TagValue that is not null MarshalIndexFieldValue succeeds with
\* the encoding of the variant: the raw bytes of a string or of binary data,
\* the elements of a string array joined by one newline in array order, the
\* 8-byte encodings of the elements of an int64 array one after the other in
\* array order (8 bytes for each element), the 8 bytes of an int64.
C22_ReferenceEncoding ==
    \A p \in Procs :
        Marshalled(p) /\ call[p].md.type \in IndexableTypes =>
            LET v == call[p].md
                bytes == ret[p].bytes
            IN  /\ ret[p].err = ErrNil
                /\ v.type \in {"Str", "BinaryData"} => bytes = v.str
                /\ v.type = "StrArray" => IsJoinedByNewline(bytes, v.strArray)
                /\ v.type = "IntArray" =>
                       IsConcatenationOfEncodings(bytes, v.intArray)
                /\ v.type = "Int" => IsConcatenationOfEncodings(bytes, << v.int >>)

\* The string array ["b", "a\nb", "a"] has been encoded.
C22_Witness ==
    \E p \in Procs :
        /\ Marshalled(p)
        /\ call[p].md.type = "StrArray"
        /\ Len(call[p].md.strArray) = 3
        /\ ret[p].bytes = << 98, 10, 97, 10, 98, 10, 97 >>

\* The int64 array [-1, 1] has been encoded in 16 bytes.
IntArrayEncoded ==
    \E p \in Procs :
        /\ Marshalled(p)
        /\ call[p].md.type = "IntArray"
        /\ Len(call[p].md.intArray) = 2
        /\ Len(ret[p].bytes) = 16

\* The step in which p calls Write.
Writes(p) ==
    /\ calls' = calls + 1
    /\ local'[p].cid = calls'
    /\ call'[p].op = "Write"

\* The declared type of the j-th tag of the i-th family, "" where the schema
\* defines none.
DeclaredType(i, j) ==
    IF i <= Len(StreamSchema) /\ j <= Len(StreamSchema[i])
    THEN StreamSchema[i][j] ELSE ""

\* The positions << i, j >> of the tags an element supplies.
TagsOf(ele) ==
    UNION { { << i, j >> : j \in 1..Len(ele.tagFamilies[i]) } :
              i \in 1..Len(ele.tagFamilies) }

BothWrote(p, q) ==
    /\ p # q
    /\ Updated(p) /\ Updated(q)
    /\ KeyOf(p) = KeyOf(q)
    /\ ret[p].err = ErrNil /\ ret[q].err = ErrNil
    /\ local[p].wrote > 0
    /\ local[p].wrote < local[q].wrote

\* The update callbacks handler h has received for a key.
UpdateEventsFor(key, h) ==
    { n \in 1..Len(events) :
        /\ events[n].handler = h
        /\ events[n].type = "update"
        /\ Key(events[n].md) = key }

\* C24: of two Update calls that both changed one key and both succeeded,
\* every handler receives the notification of the write that committed first
\* before that of the write that committed second; so, the calls having
\* returned and the key being as the second write left it, the entity of the
\* last update notification a handler received for the key is the value
\* stored under it.
C24_NotifiedInCommitOrder ==
    \A p, q \in Procs :
        BothWrote(p, q) =>
            \A h \in 1..Len(handlers) :
                /\ \A n \in EventsOf(local[p].cid, h), m \in EventsOf(local[q].cid, h) :
                       n < m
                /\ Unmutated(q) /\ UpdateEventsFor(KeyOf(q), h) # {} =>
                       LET last == CHOOSE n \in UpdateEventsFor(KeyOf(q), h) :
                                       \A m \in UpdateEventsFor(KeyOf(q), h) : m <= n
                       IN  Marshal(events[last].md.spec) = kv[KeyOf(q)].value

\* Two Update calls of different values on one key have returned, both having
\* read the key as absent and neither failing in the substrate.
BothInserted(p, q) ==
    /\ p # q
    /\ Updated(p) /\ Updated(q)
    /\ KeyOf(p) = KeyOf(q)
    /\ call[p].md.spec # call[q].md.spec
    /\ local[p].observed = 0 /\ local[q].observed = 0
    /\ ret[p].err # ErrSubstrate /\ ret[q].err # ErrSubstrate

\* C25: two Update calls with different values that both read the key as
\* absent both put without a condition and both return success, neither
\* ErrConcurrentModification; both notify every interested handler once; and
\* the key, while no other call has written it since, holds the value of the
\* later put.
C25_BothFirstInsertsSucceed ==
    \A p, q \in Procs :
        BothInserted(p, q) =>
            /\ ret[p].err = ErrNil /\ ret[q].err = ErrNil
            /\ local[p].wrote > 0 /\ local[q].wrote > 0
            /\ \A h \in Interested(p) : Received(p, h, "update", 1)
            /\ \A h \in Interested(q) : Received(q, h, "update", 1)
            /\ local[p].wrote < local[q].wrote /\ Unmutated(q) =>
                   kv[KeyOf(q)].value = Marshal(call[q].md.spec)

\* Two first inserts of one key have raced, and a handler was told of both.
C25_Witness ==
    \E p, q \in Procs :
        /\ BothInserted(p, q)
        /\ local[p].wrote < local[q].wrote
        /\ Unmutated(q)
        /\ Interested(p) # {}
        /\ \A h \in Interested(p) :
              Received(p, h, "update", 1) /\ Received(q, h, "update", 1)

\* The key p's Update read is not the key it read any more: it is deleted, or
\* it was deleted and created again after the read.
DeletedSinceRead(p) ==
    /\ local[p].modRevision > 0
    /\ \/ KeyOf(p) \notin DOMAIN kv
       \/ kv[KeyOf(p)].create > local[p].modRevision

\* C26: an Update that read a stored entity does not bring it back after a
\* deletion: when the key was deleted (by a Delete or by a DeleteGroup), or
\* deleted and created again, between the Update's read and its conditional
\* write, the write is refused with ErrConcurrentModification, and the store
\* stays as the other operations left it.
C26_NoResurrection ==
    [][\A p \in Procs :
          /\ pc[p] = "update_txn"
          /\ pc'[p] # "update_txn"
          /\ ret'[p].err # ErrSubstrate
          /\ DeletedSinceRead(p)
          => /\ ret'[p].err = ErrConcurrentModification
             /\ UNCHANGED << kv, rev, events >>]_vars

\* An Update has been refused on a key that was deleted and created again
\* after the Update read it.
C26_Witness ==
    \E p \in Procs :
        /\ Updated(p)
        /\ ret[p].err = ErrConcurrentModification
        /\ KeyOf(p) \in DOMAIN kv
        /\ kv[KeyOf(p)].create > local[p].modRevision

\* An Update has been refused on a key that a DeleteGroup deleted after the
\* Update read it.
RefusedAfterDeleteGroup ==
    \E p, q \in Procs :
        /\ Updated(p)
        /\ ret[p].err = ErrConcurrentModification
        /\ KeyOf(p) \notin DOMAIN kv
        /\ call[q].op = "DeleteGroup" /\ local[q].wrote > local[p].modRevision

\* C27: in every state every stored Stream, Measure, IndexRule and
\* IndexRuleBinding lies under a group whose metadata key is stored: none is
\* stored under a group that was never created, and none outlives the
\* deletion of its group or is created after it.
C27_EntitiesUnderGroup ==
    \A key \in DOMAIN kv :
        kv[key].value.wire \in EntityKinds =>
            formatGroupKey(kv[key].value.data.group) \in DOMAIN kv

\* Identities (kind, group, name) over groups and names with and without "/":
\* the groups "g", "g/streams" and "g/streams/x", and under each the entities
\* "s", "streams/s" and "x/__meta_group__" of every kind.
CodecTriples ==
    LET g == << 103 >>
        streams == << 115, 116, 114, 101, 97, 109, 115 >>
        groups == { g, g \o << 47 >> \o streams,
                    g \o << 47 >> \o streams \o << 47, 120 >> }
        names == { << 115 >>, streams \o << 47, 115 >>,
                   << 120 >> \o GroupMetadataKey }
    IN  { DeleteMetadata(KindGroup, << >>, group) : group \in groups }
        \cup { DeleteMetadata(kind, group, name) :
                  kind \in EntityKinds, group \in groups, name \in names }

\* C28: the key codec is injective over (group, kind, name): the key of an
\* identity passed to Update is the key of no other identity, whatever the
\* group and name strings, and the key of an entity is not of the shape of a
\* group-metadata key.
C28_KeyCodecInjective ==
    \A p \in Procs :
        Updated(p) =>
            /\ \A t \in CodecTriples :
                  Key(t) = KeyOf(p) =>
                      /\ t.kind = call[p].md.kind
                      /\ t.group = call[p].md.group
                      /\ t.name = call[p].md.name
            /\ call[p].md.kind # KindGroup =>
                  ~HasSuffix(KeyOf(p), GroupMetadataKey)

\* The key codec is injective over the identities whose group and name
\* hold no "/".
KeyCodecInjectiveOfPlainNames ==
    \A p \in Procs :
        /\ Updated(p)
        /\ \A i \in 1..Len(call[p].md.group) : call[p].md.group[i] # 47
        /\ \A i \in 1..Len(call[p].md.name) : call[p].md.name[i] # 47
        => \A t \in CodecTriples :
              /\ \A i \in 1..Len(t.group) : t.group[i] # 47
              /\ \A i \in 1..Len(t.name) : t.name[i] # 47
              /\ Key(t) = KeyOf(p)
              => /\ t.kind = call[p].md.kind
                 /\ t.group = call[p].md.group
                 /\ t.name = call[p].md.name

====
